---- MODULE Spec2Model ----
(***************************************************************************)
(* Ideal triangles on the Poincare disk (src/ideal_triangles.py).          *)
(*                                                                         *)
(* geodesic_arc(p1, p2, num_points) and IdealTriangle.__init__ are         *)
(* modelled statement by statement.  float64 values are fixed-point        *)
(* integers (1.0 is SCALE), angles are integers in half degrees (2*pi is   *)
(* FULL), numpy's nan is the value NaN, and every numpy operation used by  *)
(* the source is an operator that rounds to the nearest representable      *)
(* value and propagates NaN the way numpy does.                            *)
(***************************************************************************)
EXTENDS Integers, Sequences, FiniteSets, TLC

VARIABLES
    pc,                  \* position of the single thread of control
    caller,              \* who called geodesic_arc: "main" or "triangle"
    p1_unit, p2_unit,    \* the caller's two arrays passed to geodesic_arc
    p1, p2, num_points,  \* geodesic_arc: parameters, rebound at lines 28-29, 90
    mid, perp, lhs, rhs_coeff, t_param, center, radius, angle1, angle2,
    sample_angles,       \* geodesic_arc: its local "angles" (line 101)
    points,              \* geodesic_arc: the list it returns
    arc_points,          \* the caller's name for the returned list
    angles, self_radius, num_points_per_side, i, all_points,
    corners,             \* argument of set_points_as_corners (line 144)
    dropped,             \* history: the samples dropped by [:-1] at line 142
    watch, memo          \* history: calls to compare, and their first results

ga_args == <<p1, p2, num_points>>
ga_circle == <<mid, perp, lhs, rhs_coeff, t_param, center, radius>>
ga_arc == <<angle1, angle2, sample_angles, points>>
ga_locals == <<ga_args, ga_circle, ga_arc>>
call == <<caller, p1_unit, p2_unit>>
tri_locals == <<angles, self_radius, num_points_per_side, i, all_points,
                corners, dropped>>
history == <<watch, memo>>
vars == <<pc, call, ga_locals, arc_points, tri_locals, history>>

----------------------------------------------------------------------------
(* float64 as fixed point                                                  *)

SCALE == 1000
FULL == 720
HALF == FULL \div 2
QUARTER == FULL \div 4
NaN == -999999999
\* a division that raised ZeroDivisionError instead of returning
ZeroDivisionError == NaN - 1
Unbound == <<>>

IsNaN(x) == x = NaN
Abs(x) == IF x < 0 THEN -x ELSE x

\* a / b rounded to the nearest integer, b > 0
RoundDiv(a, b) == (2 * a + b) \div (2 * b)
RoundDivS(a, b) == IF b > 0 THEN RoundDiv(a, b) ELSE -RoundDiv(a, -b)

FAdd(a, b) == IF IsNaN(a) \/ IsNaN(b) THEN NaN ELSE a + b
FSub(a, b) == IF IsNaN(a) \/ IsNaN(b) THEN NaN ELSE a - b
FMul(a, b) == IF IsNaN(a) \/ IsNaN(b) THEN NaN ELSE RoundDiv(a * b, SCALE)
\* Python's float division: a zero divisor raises
FDivStrict(a, b) ==
    IF IsNaN(a) \/ IsNaN(b) THEN NaN
    ELSE IF b = 0 THEN ZeroDivisionError
    ELSE RoundDivS(a * SCALE, b)
\* numpy true division: no exception, 0/0 is nan.  The two divisions of the
\* source are perp / norm(perp), where a zero norm means a zero numerator,
\* and lhs / rhs_coeff behind the guard of line 69.
FDiv(a, b) ==
    IF IsNaN(a) \/ IsNaN(b) \/ b = 0 THEN NaN ELSE RoundDivS(a * SCALE, b)
\* comparisons with nan are False
FLt(a, b) == IF IsNaN(a) \/ IsNaN(b) THEN FALSE ELSE a < b
FGt(a, b) == FLt(b, a)

VAdd(u, v) == <<FAdd(u[1], v[1]), FAdd(u[2], v[2])>>
VSub(u, v) == <<FSub(u[1], v[1]), FSub(u[2], v[2])>>
VScale(s, v) == <<FMul(s, v[1]), FMul(s, v[2])>>
VNeg(v) == <<-v[1], -v[2]>>
HasNaN(v) == \E k \in DOMAIN v : IsNaN(v[k])
Raises(v) == \E k \in DOMAIN v : v[k] = ZeroDivisionError

\* np.dot of two 2-vectors
Dot(u, v) ==
    IF HasNaN(u) \/ HasNaN(v) THEN NaN
    ELSE RoundDiv(u[1] * v[1] + u[2] * v[2], SCALE)

RECURSIVE SqrtSearch(_, _, _)
SqrtSearch(n, lo, hi) ==
    IF hi - lo <= 1 THEN lo
    ELSE LET m == (lo + hi) \div 2
         IN IF m * m <= n THEN SqrtSearch(n, m, hi) ELSE SqrtSearch(n, lo, m)
\* the integer nearest to sqrt(n)
ISqrt(n) ==
    LET r == SqrtSearch(n, 0, 46340)
    IN IF n - r * r > r THEN r + 1 ELSE r

\* np.linalg.norm of a 2-vector
Norm(v) ==
    IF HasNaN(v) THEN NaN ELSE ISqrt(v[1] * v[1] + v[2] * v[2])

\* cos of k half degrees, k = 0 .. 180, times SCALE
CosTab ==
<< 1000, 1000, 1000, 1000, 999, 999, 999, 998, 998, 997, 996, 995,
   995, 994, 993, 991, 990, 989, 988, 986, 985, 983, 982, 980,
   978, 976, 974, 972, 970, 968, 966, 964, 961, 959, 956, 954,
   951, 948, 946, 943, 940, 937, 934, 930, 927, 924, 921, 917,
   914, 910, 906, 903, 899, 895, 891, 887, 883, 879, 875, 870,
   866, 862, 857, 853, 848, 843, 839, 834, 829, 824, 819, 814,
   809, 804, 799, 793, 788, 783, 777, 772, 766, 760, 755, 749,
   743, 737, 731, 725, 719, 713, 707, 701, 695, 688, 682, 676,
   669, 663, 656, 649, 643, 636, 629, 623, 616, 609, 602, 595,
   588, 581, 574, 566, 559, 552, 545, 537, 530, 522, 515, 508,
   500, 492, 485, 477, 469, 462, 454, 446, 438, 431, 423, 415,
   407, 399, 391, 383, 375, 367, 358, 350, 342, 334, 326, 317,
   309, 301, 292, 284, 276, 267, 259, 250, 242, 233, 225, 216,
   208, 199, 191, 182, 174, 165, 156, 148, 139, 131, 122, 113,
   105, 96, 87, 78, 70, 61, 52, 44, 35, 26, 17, 9,
   0 >>

\* np.cos, np.sin
Cos(a) ==
    IF IsNaN(a) THEN NaN
    ELSE LET m == a % FULL
         IN IF m <= QUARTER THEN CosTab[m + 1]
            ELSE IF m <= HALF THEN -CosTab[HALF - m + 1]
            ELSE IF m <= HALF + QUARTER THEN -CosTab[m - HALF + 1]
            ELSE CosTab[FULL - m + 1]
Sin(a) == IF IsNaN(a) THEN NaN ELSE Cos(a - QUARTER)

\* |v| sin(arg v - k) for v = (ax, ay) in the first quadrant
Cross(k, ax, ay) == ay * CosTab[k + 1] - ax * CosTab[QUARTER - k + 1]
RECURSIVE AngleSearch(_, _, _, _)
AngleSearch(ax, ay, lo, hi) ==
    IF lo = hi THEN lo
    ELSE LET m == (lo + hi + 1) \div 2
         IN IF Cross(m, ax, ay) >= 0 THEN AngleSearch(ax, ay, m, hi)
            ELSE AngleSearch(ax, ay, lo, m - 1)
QuadrantAngle(ax, ay) ==
    LET k == AngleSearch(ax, ay, 0, QUARTER)
    IN IF k < QUARTER /\ -Cross(k + 1, ax, ay) < Cross(k, ax, ay)
       THEN k + 1 ELSE k
\* np.arctan2(y, x): the nearest angle in [-pi, pi]
Arctan2(y, x) ==
    IF IsNaN(y) \/ IsNaN(x) THEN NaN
    ELSE IF x = 0 /\ y = 0 THEN 0
    ELSE LET k == QuadrantAngle(Abs(x), Abs(y))
         IN IF y >= 0 THEN (IF x >= 0 THEN k ELSE HALF - k)
            ELSE (IF x >= 0 THEN -k ELSE k - HALF)

\* np.linspace(start, stop, num): endpoint included, last sample set to stop
Linspace(start, stop, num) ==
    [k \in 1..num |->
        IF IsNaN(start) \/ IsNaN(stop) THEN NaN
        ELSE IF k = 1 THEN start
        ELSE IF k = num THEN stop
        ELSE start + RoundDivS((stop - start) * (k - 1), num - 1)]

\* np.allclose(a, b, atol=1e-6) with numpy's default rtol=1e-5:
\* all(|a - b| <= atol + rtol * |b|)
AtolInv == 1000000
RtolInv == 100000
AllClose(a, b) ==
    \A k \in DOMAIN a :
        /\ ~IsNaN(a[k]) /\ ~IsNaN(b[k])
        /\ Abs(a[k] - b[k])
              <= (SCALE + (AtolInv \div RtolInv) * Abs(b[k])) \div AtolInv

\* abs(x) < 1e-10, 1e-10 = 1 / (DegenRoot * DegenRoot)
DegenRoot == 100000
BelowDegenTol(x) ==
    /\ ~IsNaN(x)
    /\ Abs(x) <= ((SCALE - 1) \div DegenRoot) \div DegenRoot

----------------------------------------------------------------------------
(* Inputs                                                                  *)

\* num_points and num_points_per_side range over 2 .. MaxPoints
MaxPoints == 3
NumPoints == 2..MaxPoints

\* line 137: np.array([np.cos(a), np.sin(a), 0])
UnitPoint(a) == <<Cos(a), Sin(a), 0>>

\* boundary angles in half degrees: the multiples of 30 and of 45 degrees
BoundaryAngles ==
    {0, 60, 90, 120, 180, 240, 270, 300, 360, 420, 450, 480, 540, 600, 630, 660}
CirclePoints == {UnitPoint(a) : a \in BoundaryAngles}
\* the origin, a point outside the disk, a point inside it
MalformedPoints == {<<0, 0>>, <<2000, 0>>, <<500, 500>>}
InputPoints == CirclePoints \cup MalformedPoints

\* angles of triangles: 0, 45, 120, 180, 240 and -90 degrees
TriangleAngles == {0, 90, 240, 360, 480, -180}
Radii == {1000, 2500}

\* a run either makes any call (watch = {}) or repeats the calls of watch
ArcCall(a1, a2, n) == <<"arc", a1, a2, n>>
TriCall(as, r, n) == <<"tri", as, <<r>>, n>>
Allowed(sig) == watch = {} \/ sig \in watch
Record(sig, res) ==
    IF sig \in watch /\ ~(\E e \in memo : e[1] = sig)
    THEN memo \cup {<<sig, res>>} ELSE memo
ArcSig == ArcCall(p1_unit, p2_unit, num_points)
TriSig == TriCall(angles, self_radius, num_points_per_side)

\* a triangle, its middle side called directly, and that side reversed
WatchedTriangles == {<<0, 240, 480>>, <<0, 90, 360>>, <<480, 0, -180>>}
WatchSets ==
    {{TriCall(as, r, n),
      ArcCall(UnitPoint(as[2]), UnitPoint(as[3]), n),
      ArcCall(UnitPoint(as[3]), UnitPoint(as[2]), n)} :
        as \in WatchedTriangles, r \in Radii, n \in NumPoints}

----------------------------------------------------------------------------
(* geodesic_arc, lines 13-107                                              *)

\* the interpolation weights exchanged
DiameterReversed(q1, q2, n) ==
    LET t == Linspace(0, SCALE, n)
    IN [k \in 1..n |->
          <<FAdd(FMul(t[k], q1[1]), FMul(SCALE - t[k], q2[1])),
            FAdd(FMul(t[k], q1[2]), FMul(SCALE - t[k], q2[2])),
            0>>]
\* lines 33-35 and 71-73: num_points samples of the segment q1 -> q2
Diameter(q1, q2, n) ==
    LET t == Linspace(0, SCALE, n)
    IN [k \in 1..n |->
          <<FAdd(FMul(SCALE - t[k], q1[1]), FMul(t[k], q2[1])),
            FAdd(FMul(SCALE - t[k], q1[2]), FMul(t[k], q2[2])),
            0>>]

\* lines 13, 28-29: a new frame; the call binds the first two coordinates
\* of each argument
Enter(a1, a2, n, who) ==
    /\ caller' = who
    /\ p1_unit' = a1
    /\ p2_unit' = a2
    /\ p1' = SubSeq(a1, 1, 2)
    /\ p2' = SubSeq(a2, 1, 2)
    /\ num_points' = n
    /\ pc' = "ga_antipodal"
    /\ UNCHANGED <<ga_circle, ga_arc>>

\* lines 32-35
GaAntipodal ==
    /\ pc = "ga_antipodal"
    /\ IF AllClose(p1, VNeg(p2))
       THEN /\ points' = Diameter(p1, p2, num_points)
            /\ pc' = "ga_return"
       ELSE /\ points' = points
            /\ pc' = "ga_center"
    /\ UNCHANGED <<call, ga_args, ga_circle, angle1, angle2, sample_angles,
                   arc_points, tri_locals, history>>

\* line 48
Midpoint(q1, q2) == <<RoundDiv(q1[1] + q2[1], 2), RoundDiv(q1[2] + q2[2], 2)>>
\* lines 51-52
UnitPerp(q1, q2) ==
    LET v == <<-(q2[2] - q1[2]), q2[1] - q1[1]>>
        n == Norm(v)
    IN <<FDiv(v[1], n), FDiv(v[2], n)>>
\* the constant term of the orthogonality equation left out
LhsWithoutOne(q1, m) ==
    LET d == VSub(m, q1)
    IN FSub(Dot(d, d), Dot(m, m))
\* lines 63-66
Lhs(q1, m) ==
    LET d == VSub(m, q1)
    IN FAdd(FSub(Dot(d, d), Dot(m, m)), SCALE)
\* line 67
RhsCoeff(q1, pp) == LET x == Dot(q1, pp) IN IF IsNaN(x) THEN NaN ELSE 2 * x

\* lines 48-67; a division that raises ends the call
GaCenter ==
    /\ pc = "ga_center"
    /\ mid' = Midpoint(p1, p2)
    /\ perp' = UnitPerp(p1, p2)
    /\ IF Raises(perp')
       THEN /\ pc' = "raised"
            /\ UNCHANGED <<lhs, rhs_coeff>>
       ELSE /\ lhs' = Lhs(p1, mid')
            /\ rhs_coeff' = RhsCoeff(p1, perp')
            /\ pc' = "ga_degenerate"
    /\ UNCHANGED <<call, ga_args, t_param, center, radius, ga_arc, arc_points,
                   tri_locals, history>>

\* line 76
Center(m, pp, t) == VAdd(m, VScale(t, pp))
\* line 77
Radius(q1, c) == Norm(VSub(q1, c))

\* lines 69-77
GaDegenerate ==
    /\ pc = "ga_degenerate"
    /\ IF BelowDegenTol(rhs_coeff)
       THEN /\ points' = Diameter(p1, p2, num_points)
            /\ pc' = "ga_return"
            /\ UNCHANGED <<t_param, center, radius>>
       ELSE /\ t_param' = FDiv(lhs, rhs_coeff)
            /\ IF t_param' = ZeroDivisionError
               THEN /\ pc' = "raised"
                    /\ UNCHANGED <<center, radius>>
               ELSE /\ center' = Center(mid, perp, t_param')
                    /\ radius' = Radius(p1, center')
                    /\ pc' = "ga_angles"
            /\ UNCHANGED points
    /\ UNCHANGED <<call, ga_args, mid, perp, lhs, rhs_coeff, angle1, angle2,
                   sample_angles, arc_points, tri_locals, history>>

\* lines 80-81: the angle of q seen from the centre c
AngleFrom(c, q) == Arctan2(FSub(q[2], c[2]), FSub(q[1], c[1]))

\* lines 80-81 (line 85 computes center_dist, which nothing reads)
GaAngles ==
    /\ pc = "ga_angles"
    /\ angle1' = AngleFrom(center, p1)
    /\ angle2' = AngleFrom(center, p2)
    /\ pc' = "ga_order"
    /\ UNCHANGED <<call, ga_args, ga_circle, sample_angles, points,
                   arc_points, tri_locals, history>>

\* the angles are never ordered
NoSwap(a1, a2) == FALSE
\* line 88
NeedsSwap(a1, a2) == FLt(a2, a1)

\* lines 88-90
GaOrder ==
    /\ pc = "ga_order"
    /\ IF NeedsSwap(angle1, angle2)
       THEN /\ angle1' = angle2
            /\ angle2' = angle1
            /\ p1' = p2
            /\ p2' = p1
       ELSE UNCHANGED <<angle1, angle2, p1, p2>>
    /\ pc' = "ga_direction"
    /\ UNCHANGED <<call, num_points, ga_circle, sample_angles, points,
                   arc_points, tri_locals, history>>

\* line 93
MidAngle(a1, a2) ==
    IF IsNaN(a1) \/ IsNaN(a2) THEN NaN ELSE RoundDiv(a1 + a2, 2)
\* center + radius * (cos a, sin a), lines 94 and 104
OnCircle(c, r, a) == VAdd(c, VScale(r, <<Cos(a), Sin(a)>>))
\* the arc through the midpoint angle is always kept
NeverWrong(c, r, a1, a2) == FALSE
\* lines 93-96
WrongDirection(c, r, a1, a2) ==
    FGt(Norm(OnCircle(c, r, MidAngle(a1, a2))), SCALE)

\* lines 93-99
GaDirection ==
    /\ pc = "ga_direction"
    /\ IF WrongDirection(center, radius, angle1, angle2)
       THEN /\ angle1' = FSub(angle2, FULL)
            /\ angle2' = angle1
       ELSE UNCHANGED <<angle1, angle2>>
    /\ pc' = "ga_sample"
    /\ UNCHANGED <<call, ga_args, ga_circle, sample_angles, points,
                   arc_points, tri_locals, history>>

\* lines 102-105
ArcSamples(c, r, as) ==
    [k \in DOMAIN as |-> LET pt == OnCircle(c, r, as[k]) IN <<pt[1], pt[2], 0>>]

\* line 102 as a list shared between calls (a mutable default argument):
\* the samples are appended to the list the caller still holds
GaSampleSharedList ==
    /\ pc = "ga_sample"
    /\ sample_angles' = Linspace(angle1, angle2, num_points)
    /\ points' = arc_points \o ArcSamples(center, radius, sample_angles')
    /\ pc' = "ga_return"
    /\ UNCHANGED <<call, ga_args, ga_circle, angle1, angle2, arc_points,
                   tri_locals, history>>
\* lines 101-105
GaSample ==
    /\ pc = "ga_sample"
    /\ sample_angles' = Linspace(angle1, angle2, num_points)
    /\ points' = ArcSamples(center, radius, sample_angles')
    /\ pc' = "ga_return"
    /\ UNCHANGED <<call, ga_args, ga_circle, angle1, angle2, arc_points,
                   tri_locals, history>>

\* lines 35, 73, 107: the list goes to the caller and the frame is gone
GaReturn ==
    /\ pc = "ga_return"
    /\ arc_points' = points
    /\ memo' = Record(ArcSig, points)
    /\ pc' = IF caller = "main" THEN "main_use" ELSE "tri_extend"
    /\ p1' = Unbound /\ p2' = Unbound /\ num_points' = Unbound
    /\ mid' = Unbound /\ perp' = Unbound /\ lhs' = Unbound
    /\ rhs_coeff' = Unbound /\ t_param' = Unbound
    /\ center' = Unbound /\ radius' = Unbound
    /\ angle1' = Unbound /\ angle2' = Unbound
    /\ sample_angles' = Unbound /\ points' = Unbound
    /\ UNCHANGED <<call, tri_locals, watch>>

GaStep ==
    \/ GaAntipodal \/ GaCenter \/ GaDegenerate \/ GaAngles
    \/ GaOrder \/ GaDirection \/ GaSample \/ GaReturn

----------------------------------------------------------------------------
(* A direct caller of geodesic_arc, lines 342-348                          *)

\* line 344
CallArc(a1, a2, n) ==
    /\ pc = "idle"
    /\ Allowed(ArcCall(a1, a2, n))
    /\ Enter(a1, a2, n, "main")
    /\ UNCHANGED <<arc_points, tri_locals, history>>

\* lines 345-348: the list is scaled and handed to the side
MainUse ==
    /\ pc = "main_use"
    /\ pc' = "idle"
    /\ caller' = Unbound
    /\ p1_unit' = Unbound
    /\ p2_unit' = Unbound
    /\ arc_points' = Unbound
    /\ UNCHANGED <<ga_locals, tri_locals, history>>

----------------------------------------------------------------------------
(* IdealTriangle.__init__, lines 113-144                                   *)

\* line 135: range(3)
Sides == 3

\* lines 123-135
TriInit(as, r, n) ==
    /\ pc = "idle"
    /\ Allowed(TriCall(as, r, n))
    /\ angles' = as
    /\ self_radius' = r
    /\ num_points_per_side' = n
    /\ all_points' = <<>>
    /\ dropped' = <<>>
    /\ corners' = <<>>
    /\ i' = 0
    /\ pc' = "tri_side"
    /\ UNCHANGED <<call, ga_locals, arc_points, history>>

\* lines 137-139
TriSide ==
    /\ pc = "tri_side"
    /\ Enter(UnitPoint(angles[i + 1]), UnitPoint(angles[((i + 1) % Sides) + 1]),
             num_points_per_side, "triangle")
    /\ UNCHANGED <<arc_points, tri_locals, history>>

\* line 141
Scaled(r, pts) ==
    [k \in DOMAIN pts |-> <<FMul(r, pts[k][1]), FMul(r, pts[k][2]),
                            FMul(r, pts[k][3])>>]
\* the last sample of a side is kept
KeepAll(pts) == pts
\* line 142: scaled_points[:-1]
AllButLast(pts) == SubSeq(pts, 1, Len(pts) - 1)

\* lines 141-142 and the loop's step
TriExtend ==
    /\ pc = "tri_extend"
    /\ LET scaled_points == Scaled(self_radius, arc_points)
       IN /\ all_points' = all_points \o AllButLast(scaled_points)
          /\ dropped' = Append(dropped, scaled_points[Len(scaled_points)])
    /\ i' = i + 1
    /\ pc' = IF i + 1 < Sides THEN "tri_side" ELSE "tri_close"
    /\ UNCHANGED <<call, ga_locals, arc_points, angles, self_radius,
                   num_points_per_side, corners, history>>

\* line 144: all_points + [all_points[0]]
Closed(pts) == pts \o <<pts[1]>>

\* line 144
TriClose ==
    /\ pc = "tri_close"
    /\ corners' = Closed(all_points)
    /\ pc' = "tri_done"
    /\ UNCHANGED <<call, ga_locals, arc_points, angles, self_radius,
                   num_points_per_side, i, all_points, dropped, history>>

\* __init__ returns: the triangle goes to the scene (lines 186, 272)
TriDone ==
    /\ pc = "tri_done"
    /\ memo' = Record(TriSig, corners)
    /\ pc' = "idle"
    /\ caller' = Unbound
    /\ p1_unit' = Unbound
    /\ p2_unit' = Unbound
    /\ arc_points' = Unbound
    /\ angles' = Unbound /\ self_radius' = Unbound
    /\ num_points_per_side' = Unbound /\ i' = Unbound
    /\ all_points' = Unbound /\ corners' = Unbound /\ dropped' = Unbound
    /\ UNCHANGED <<ga_locals, watch>>

----------------------------------------------------------------------------
(* Specifications                                                          *)

Idle ==
    /\ pc = "idle"
    /\ caller = Unbound /\ p1_unit = Unbound /\ p2_unit = Unbound
    /\ p1 = Unbound /\ p2 = Unbound /\ num_points = Unbound
    /\ mid = Unbound /\ perp = Unbound /\ lhs = Unbound
    /\ rhs_coeff = Unbound /\ t_param = Unbound
    /\ center = Unbound /\ radius = Unbound
    /\ angle1 = Unbound /\ angle2 = Unbound
    /\ sample_angles = Unbound /\ points = Unbound
    /\ arc_points = Unbound
    /\ angles = Unbound /\ self_radius = Unbound
    /\ num_points_per_side = Unbound /\ i = Unbound
    /\ all_points = Unbound /\ corners = Unbound /\ dropped = Unbound
    /\ memo = {}

\* any call, in any order
Init == Idle /\ watch = {}
\* the calls of one watch set, repeated in any order
InitRepeat == Idle /\ watch \in WatchSets

Next ==
    \/ \E a1 \in InputPoints, a2 \in InputPoints, n \in NumPoints :
          CallArc(a1, a2, n)
    \/ GaAntipodal
    \/ GaCenter
    \/ GaDegenerate
    \/ GaAngles
    \/ GaOrder
    \/ GaDirection
    \/ GaSample
    \/ GaReturn
    \/ MainUse
    \/ \E as \in TriangleAngles \X TriangleAngles \X TriangleAngles,
          r \in Radii, n \in NumPoints : TriInit(as, r, n)
    \/ TriSide
    \/ TriExtend
    \/ TriClose
    \/ TriDone

Spec == Init /\ [][Next]_vars
SpecRepeat == InitRepeat /\ [][Next]_vars

----------------------------------------------------------------------------
(* Properties                                                              *)

\* the tolerance of "within epsilon": 0.02
Eps == SCALE \div 50
\* the rounding of one linear interpolation: two products and the parameter
RoundTol == 2 * (SCALE \div SCALE)

Dist(p, q) == Norm(<<FSub(p[1], q[1]), FSub(p[2], q[2])>>)
Near(p, q) == LET d == Dist(p, q) IN ~IsNaN(d) /\ d <= Eps
GaPcs == {"ga_antipodal", "ga_center", "ga_degenerate", "ga_angles",
          "ga_order", "ga_direction", "ga_sample", "ga_return"}
\* the arguments are distinct points of the unit circle
OnCircleCall ==
    /\ pc \in GaPcs
    /\ p1_unit \in CirclePoints
    /\ p2_unit \in CirclePoints
    /\ p1_unit # p2_unit
\* p1 = -p2 within 1e-6
AntipodalCall ==
    /\ pc \in GaPcs
    /\ \A k \in 1..2 : Abs(p1_unit[k] + p2_unit[k]) <= SCALE \div AtolInv

\* C1: for distinct points of the unit circle the returned path begins
\* within epsilon of the first argument and ends within epsilon of the
\* second, whether or not the angles were swapped.
C1_EndpointFidelity ==
    (pc = "ga_return" /\ OnCircleCall) =>
        /\ Near(points[1], p1_unit)
        /\ Near(points[Len(points)], p2_unit)

\* C2: for three distinct boundary angles, the sample dropped from side s
\* lies within tolerance of the first sample of side (s+1) mod 3.
C2_SidesMeet ==
    (pc = "tri_done" /\ Cardinality({angles[k] % FULL : k \in 1..Sides}) = Sides) =>
        \A s \in 0..(Sides - 1) :
            Near(dropped[s + 1],
                 all_points[((s + 1) % Sides) * (num_points_per_side - 1) + 1])

\* C3: the polyline of a triangle has 3*(num_points_per_side - 1) + 1 points
\* and its last point is its first point, whatever branch each side took.
C3_ClosedPolyline ==
    pc = "tri_done" =>
        /\ Len(corners) = 3 * (num_points_per_side - 1) + 1
        /\ corners[Len(corners)] = corners[1]
C3_Witness ==
    /\ pc = "tri_done"
    /\ angles = <<0, 360, 240>>
    /\ self_radius = 2500
    /\ num_points_per_side = 3
    /\ Len(corners) = 7

\* C4: for non-antipodal distinct points of the unit circle, the path of
\* geodesic_arc(p1, p2) is, sample by sample within tolerance, the reverse
\* of the path of geodesic_arc(p2, p1).
C4_Symmetry ==
    (pc = "ga_return" /\ OnCircleCall /\ ~AntipodalCall) =>
        \A e \in memo :
            e[1] = ArcCall(p2_unit, p1_unit, num_points) =>
                \A k \in 1..num_points :
                    Near(points[k], e[2][num_points + 1 - k])

\* C5: for antipodal arguments the result is num_points points linearly
\* interpolated along the diameter, the first equal to p1 and the last to
\* p2, each with z = 0.
C5_AntipodalDiameter ==
    (pc = "ga_return" /\ AntipodalCall) =>
        /\ Len(points) = num_points
        /\ points[1] = <<p1_unit[1], p1_unit[2], 0>>
        /\ points[num_points] = <<p2_unit[1], p2_unit[2], 0>>
        /\ \A k \in 1..num_points :
              /\ points[k][3] = 0
              /\ \A c \in 1..2 :
                    Abs((num_points - 1) * points[k][c]
                        - ((num_points - k) * p1_unit[c] + (k - 1) * p2_unit[c]))
                      <= (num_points - 1) * RoundTol
C5_Witness ==
    /\ pc = "ga_return"
    /\ p1_unit = <<1000, 0, 0>>
    /\ p2_unit = <<-1000, 0, 0>>
    /\ points = << <<1000, 0, 0>>, <<0, 0, 0>>, <<-1000, 0, 0>> >>

\* C6: a call's result is a function of its arguments only: a call returns
\* what the first call with the same arguments returned, whatever calls were
\* made in between.
C6_Deterministic ==
    /\ pc = "ga_return" => \A e \in memo : e[1] = ArcSig => e[2] = points
    /\ pc = "tri_done" => \A e \in memo : e[1] = TriSig => e[2] = corners
C6_Witness ==
    /\ pc = "ga_return"
    /\ caller = "triangle"
    /\ i = 1
    /\ \E e \in memo : e[1] = ArcSig /\ e[2] = points
    /\ \E e \in memo : e[1][1] = "tri"

\* C7: for distinct points of the unit circle every returned sample lies
\* within 1 + epsilon of the origin.
C7_InsideDisk ==
    (pc = "ga_return" /\ OnCircleCall) =>
        \A k \in 1..Len(points) :
            LET d == Norm(<<points[k][1], points[k][2]>>)
            IN ~IsNaN(d) /\ d <= SCALE + Eps
C7_Witness ==
    /\ pc = "ga_return"
    /\ p1_unit = UnitPoint(0)
    /\ p2_unit = UnitPoint(180)
    /\ sample_angles = <<-360, -270, -180>>

\* C8: in the general case the constructed circle has its centre farther
\* than 1 from the origin, radius^2 = |center|^2 - 1, it passes through p1
\* and p2, and its centre is mid + t*perp with
\* t * (2 p1.perp) = d.d - mid.mid + 1.
C8_Orthogonal ==
    (pc = "ga_angles" /\ OnCircleCall) =>
        /\ Norm(center) > SCALE
        /\ Abs(radius * radius
               - (center[1] * center[1] + center[2] * center[2] - SCALE * SCALE))
             <= 2 * Eps * SCALE
        /\ Abs(Norm(VSub(p1, center)) - radius) <= Eps
        /\ Abs(Norm(VSub(p2, center)) - radius) <= Eps
        /\ center = VAdd(Midpoint(p1, p2), VScale(t_param, perp))
        /\ Abs(FMul(t_param, 2 * Dot(p1, perp))
               - (Dot(VSub(mid, p1), VSub(mid, p1)) - Dot(mid, mid) + SCALE))
             <= Eps
C8_Witness ==
    /\ pc = "ga_angles"
    /\ p1_unit = UnitPoint(0)
    /\ p2_unit = UnitPoint(180)
    /\ Near(center, <<SCALE, SCALE>>)
    /\ Abs(radius - SCALE) <= RoundTol

\* C9: whatever the two points (off the circle, equal, the origin), the
\* call raises nothing and what it returns is a list of num_points points.
C9_NoException ==
    /\ pc # "raised"
    /\ pc = "ga_return" =>
          /\ Len(points) = num_points
          /\ \A k \in 1..num_points : Len(points[k]) = 3
C9_Witness ==
    /\ pc = "ga_return"
    /\ p1_unit = <<2000, 0>>
    /\ p2_unit = <<2000, 0>>
    /\ HasNaN(points[1])

\* C10: the angles reach the direction test ordered, angle1 <= angle2; the
\* arc is sampled from angle1 to angle2 when the circle's point at
\* (angle1+angle2)/2 is at most 1 from the origin, and from angle2 - 2*pi to
\* angle1 when it is farther; num_points angles are sampled linearly between
\* the two bounds, both included.
C10_ArcChoice ==
    [][/\ (pc = "ga_direction" /\ ~IsNaN(angle1) /\ ~IsNaN(angle2)) =>
             /\ angle1 <= angle2
             /\ IF Norm(OnCircle(center, radius, MidAngle(angle1, angle2))) <= SCALE
                THEN angle1' = angle1 /\ angle2' = angle2
                ELSE angle1' = angle2 - FULL /\ angle2' = angle1
       /\ (pc = "ga_sample" /\ ~IsNaN(angle1) /\ ~IsNaN(angle2)) =>
             /\ Len(sample_angles') = num_points
             /\ Len(points') = num_points
             /\ sample_angles'[1] = angle1
             /\ sample_angles'[num_points] = angle2
             /\ \A k \in 1..num_points :
                   /\ Abs((num_points - 1) * (sample_angles'[k] - angle1)
                          - (k - 1) * (angle2 - angle1)) <= num_points - 1
                   /\ <<points'[k][1], points'[k][2]>>
                        = OnCircle(center, radius, sample_angles'[k])
      ]_vars
C10_Witness ==
    /\ pc = "ga_return"
    /\ Len(sample_angles) = 3
    /\ ~IsNaN(sample_angles[1])
    /\ sample_angles[1] < -HALF
    /\ points[1] = <<OnCircle(center, radius, angle1)[1],
                     OnCircle(center, radius, angle1)[2], 0>>

====
